---- MODULE Spec2Model ----
(***************************************************************************)
(* Model of the RFID-over-LoRaWAN tooling:                                 *)
(*   - EPCAnalyzer.group_and_analyze       (src/EPC_OPT.py)                *)
(*   - EPCLoRaWANCalculator                (src/Testing.py)                *)
(* An EPC is a sequence of 24 one-character strings.  A list cell of the   *)
(* analyzer is written as the position (1-based) of the input cell it was  *)
(* copied from, so that two occurrences of the same EPC stay distinct.     *)
(***************************************************************************)
EXTENDS Integers, Sequences, FiniteSets, TLC

VARIABLES
    \* ---- EPCAnalyzer ----
    epcs,              \* argument of the running / last group_and_analyze call
    remaining,         \* local list `remaining` (cells of epcs)
    base,              \* local `base` (a cell of epcs, 0 before the first pop)
    group,             \* local list `group`
    groups,            \* local list `groups`
    i,                 \* local scan index `i` (0-based, as in the code)
    pc,                \* position inside group_and_analyze
    analysis_results,  \* self.analysis_results
    \* ---- EPCLoRaWANCalculator ----
    calc,              \* the instance attributes set by __init__
    call,              \* the last method call and its arguments
    ret,               \* what that call returned or raised
    prev               \* the call/result pair before it (same instance)

avars == <<epcs, remaining, base, group, groups, i, pc, analysis_results>>
cvars == <<calc, call, ret, prev>>
vars  == <<epcs, remaining, base, group, groups, i, pc, analysis_results,
           calc, call, ret, prev>>

-----------------------------------------------------------------------------
(* Bounds of the model *)

MaxEpcs == 3            \* longest list handed to group_and_analyze
MaxPacketEpcs == 3      \* longest enumerated list handed to create_lorawan_payload
MaxPayloadBytes == 16   \* largest payload size handed to calculate_airtime_parameters
MaxTotalEpcs == 40      \* largest total handed to calculate_transmission_plan

-----------------------------------------------------------------------------
(* Generic helpers *)

Rep(c, n) == [k \in 1..n |-> c]

Min2(a, b) == IF a <= b THEN a ELSE b

Max2(a, b) == IF a >= b THEN a ELSE b

RECURSIVE SumSeq(_)
SumSeq(s) == IF s = <<>> THEN 0 ELSE Head(s) + SumSeq(Tail(s))

SeqsUpTo(S, n) == UNION {[1..m -> S] : m \in 0..n}

-----------------------------------------------------------------------------
(* EPCAnalyzer *)

min_prefix_length == 6

EpcChars == 24

\* The EPC population the analyzer is exercised with (all valid, uppercase,
\* as load_epcs delivers them).
EpcA1 == Rep("A", 6) \o Rep("0", 17) \o <<"1">>
EpcA2 == Rep("A", 6) \o Rep("0", 17) \o <<"2">>
EpcA3 == Rep("A", 6) \o Rep("0", 17) \o <<"3">>
EpcB9 == Rep("B", 6) \o Rep("0", 17) \o <<"9">>   \* no common head with EpcA*, 17 equal columns
EpcAF == Rep("A", 6) \o Rep("F", 18)              \* exactly the 6-char head of EpcA*
EpcA5 == Rep("A", 5) \o <<"9">> \o Rep("F", 17) \o <<"9">>  \* 5 equal columns with EpcA*
EpcC7 == Rep("C", 12) \o Rep("7", 12)             \* alone

EpcPool == {EpcA1, EpcA2, EpcA3, EpcB9, EpcAF, EpcA5, EpcC7}

AnalyzerInputs == SeqsUpTo(EpcPool, MaxEpcs) \ {<<>>}

\* sum(1 for a, b in zip(x, y) if a == b)
common_len(x, y) ==
    Cardinality({k \in 1..Min2(Len(x), Len(y)) : x[k] = y[k]})

\* the test of line 64 with the threshold one too low
JoinsGroupOneShort(x, y) == common_len(x, y) >= min_prefix_length - 1

\* the test of line 64
JoinsGroup(x, y) == common_len(x, y) >= min_prefix_length

\* list.pop(k) taking k for a 1-based position: the cell before is removed
PopAtOneBased(s, k) == [j \in 1..(Len(s) - 1) |-> IF j < k THEN s[j] ELSE s[j + 1]]

\* list.pop(k) for a 0-based k: the list without that cell
PopAt(s, k) == [j \in 1..(Len(s) - 1) |-> IF j <= k THEN s[j] ELSE s[j + 1]]

\* the scan index stepping on after a pop as well
NextIndexAlways(k, matched) == k + 1

\* the scan index after looking at remaining[i]
NextIndex(k, matched) == IF matched THEN k ELSE k + 1

Str(g) == [j \in 1..Len(g) |-> epcs[g[j]]]

\* ---- the analysis of one group (lines 72-119) ----

ShortestLen(strs) ==
    CHOOSE n \in {Len(strs[j]) : j \in 1..Len(strs)} :
        \A j \in 1..Len(strs) : n <= Len(strs[j])

\* sum(1 for chars in zip(*group) if len(set(chars)) == 1)
UnanimousColumns(strs) ==
    Cardinality({k \in 1..ShortestLen(strs) :
                    \A j \in 1..Len(strs) : strs[j][k] = strs[1][k]})

\* the billing prefix held at the grouping threshold
prefix_len_threshold(strs) == Min2(ShortestLen(strs), min_prefix_length)

prefix_len(strs) ==
    Min2(ShortestLen(strs), Max2(min_prefix_length, UnanimousColumns(strs)))

prefix_bytes(pl) == pl \div 2

\* the suffix billed as the whole EPC
suffix_bytes_whole(pl) == EpcChars \div 2

suffix_bytes(pl) == (EpcChars - pl) \div 2

total_payload(pb, sb, n) == 2 + pb + n * sb

\* max(0, (limit - overhead) // suffix_bytes) if suffix_bytes > 0 else 0
epcs_in_frame(limit, overhead, sb) ==
    IF sb > 0 THEN Max2(0, (limit - overhead) \div sb) ELSE 0

\* round(x * 100, 1) for x = (uncompressed - total) / uncompressed, in tenths
\* of a percent; ties go to the even tenth.
compression(uncompressed, total) ==
    LET n == 1000 * (uncompressed - total)
        q == n \div uncompressed
        r == n % uncompressed
    IN  IF 2 * r > uncompressed \/ (2 * r = uncompressed /\ q % 2 = 1)
        THEN q + 1 ELSE q

SingleRow(gid) ==
    [Group_ID |-> gid, Prefix |-> <<>>, Prefix_Bytes |-> 0, Suffix_Bytes |-> 12,
     Suffix_Count |-> 1, Total_Payload_Bytes |-> 14, EPCs_SF7_51B |-> 3,
     EPCs_SF12_11B |-> 0, Compression |-> 0]

MultiRow(gid, strs) ==
    LET pl == prefix_len(strs)
        pb == prefix_bytes(pl)
        sb == suffix_bytes(pl)
        n  == Len(strs)
        tp == total_payload(pb, sb, n)
    IN  [Group_ID |-> gid, Prefix |-> SubSeq(strs[1], 1, pl), Prefix_Bytes |-> pb,
         Suffix_Bytes |-> sb, Suffix_Count |-> n, Total_Payload_Bytes |-> tp,
         EPCs_SF7_51B |-> epcs_in_frame(51, 2 + pb, sb),
         EPCs_SF12_11B |-> epcs_in_frame(11, 2 + pb, sb),
         Compression |-> compression(n * 12, tp)]

AnalyzeGroups(gs) ==
    [gid \in 1..Len(gs) |->
        IF Len(gs[gid]) = 1 THEN SingleRow(gid) ELSE MultiRow(gid, Str(gs[gid]))]

\* ---- group_and_analyze, one step at a time ----

\* lines 50-53: entry, remaining = epcs[:]
GroupCall(e) ==
    /\ pc = "idle"
    /\ epcs' = e
    /\ remaining' = [k \in 1..Len(e) |-> k]
    /\ groups' = <<>>
    /\ group' = <<>>
    /\ base' = 0
    /\ i' = 0
    /\ pc' = "outer"
    /\ UNCHANGED analysis_results

\* lines 56-61: base = remaining.pop(0); group = [base]; i = 0
PopBase ==
    /\ pc = "outer"
    /\ remaining # <<>>
    /\ base' = remaining[1]
    /\ remaining' = PopAt(remaining, 0)
    /\ group' = <<remaining[1]>>
    /\ i' = 0
    /\ pc' = "inner"
    /\ UNCHANGED <<epcs, groups, analysis_results>>

\* lines 62-67: one iteration of the inner while
ScanStep ==
    /\ pc = "inner"
    /\ i < Len(remaining)
    /\ LET cand    == remaining[i + 1]
           matched == JoinsGroup(epcs[base], epcs[cand])
       IN  /\ group' = IF matched THEN Append(group, cand) ELSE group
           /\ remaining' = IF matched THEN PopAt(remaining, i) ELSE remaining
           /\ i' = NextIndex(i, matched)
    /\ UNCHANGED <<epcs, base, groups, pc, analysis_results>>

\* line 68: the inner while is over, groups.append(group)
CloseGroup ==
    /\ pc = "inner"
    /\ i >= Len(remaining)
    /\ groups' = Append(groups, group)
    /\ pc' = "outer"
    /\ UNCHANGED <<epcs, remaining, base, group, i, analysis_results>>

\* lines 70-123: the outer while is over; analyse every group, store and return
Analyze ==
    /\ pc = "outer"
    /\ remaining = <<>>
    /\ analysis_results' = AnalyzeGroups(groups)
    /\ pc' = "done"
    /\ UNCHANGED <<epcs, remaining, base, group, groups, i>>

AnalyzerInit ==
    /\ epcs = <<>>
    /\ remaining = <<>>
    /\ base = 0
    /\ group = <<>>
    /\ groups = <<>>
    /\ i = 0
    /\ pc = "idle"
    /\ analysis_results = <<>>

-----------------------------------------------------------------------------
(* Exact rational arithmetic for the calculator's real-valued results.      *)
(* A value is [num, den] in lowest terms with den > 0.  The code computes   *)
(* in binary floating point; the model keeps the exact value each           *)
(* expression denotes, so a result here is the code's result before         *)
(* rounding.                                                                *)

Abs(a) == IF a < 0 THEN -a ELSE a

RECURSIVE GCD(_, _)
GCD(a, b) == IF b = 0 THEN a ELSE GCD(b, a % b)

Rat(n, d) ==
    LET g == GCD(Abs(n), Abs(d))
        s == IF d < 0 THEN -1 ELSE 1
    IN  [num |-> s * (n \div g), den |-> s * (d \div g)]

RInt(n) == [num |-> n, den |-> 1]

\* a * b, cancelling across before multiplying
RMul(a, b) ==
    LET x == Rat(a.num, b.den)
        y == Rat(b.num, a.den)
    IN  [num |-> x.num * y.num, den |-> x.den * y.den]

\* a / b for b # 0
RDiv(a, b) == RMul(a, Rat(b.den, b.num))

RAdd(a, b) ==
    LET g == GCD(a.den, b.den)
        l == (a.den \div g) * b.den
    IN  Rat(a.num * (l \div a.den) + b.num * (l \div b.den), l)

RLeq(a, b) ==
    LET g == GCD(a.den, b.den)
    IN  a.num * (b.den \div g) <= b.num * (a.den \div g)

RMax0(a) == IF a.num < 0 THEN RInt(0) ELSE a

\* math.floor, math.ceil
Floor(a) == a.num \div a.den

Ceil(a) == -((-a.num) \div a.den)

RECURSIVE Pow2(_)
Pow2(n) == IF n = 0 THEN 1 ELSE 2 * Pow2(n - 1)

-----------------------------------------------------------------------------
(* EPCLoRaWANCalculator *)

epc_size_bytes == 12

header_size == 4

ByteMod == 256          \* & 0xFF, struct format 'B'

ShortMod == 65536       \* & 0xFFFF, struct format 'H'

T_max_per_day == 864000

\* an optional argument is <<>> (None) or <<value>>
None == <<>>

\* sf_limits.get(self.sf, 51)
sf_limits(sf) ==
    CASE sf \in {7, 8} -> 230
      [] sf = 9 -> 123
      [] sf \in {10, 11} -> 59
      [] OTHER -> 51

\* the payload_size argument for which max_epcs_per_packet is ByteMod
BigPayload == header_size + epc_size_bytes * ByteMod

\* Arguments the constructor is called with: every radio setting with the
\* table's payload size, and the default radio setting with explicit sizes.
CtorArgs ==
    ((7..12) \X {125, 250, 500} \X (1..4) \X {None})
    \cup ({12} \X {125} \X {1} \X {<<3>>, <<4>>, <<16>>, <<BigPayload>>})

\* lines 12-34
NewCalculator(sf, bw, cr, payload_size) ==
    LET mps == IF payload_size = None THEN sf_limits(sf) ELSE payload_size[1]
    IN  [sf |-> sf, bw |-> bw, cr |-> cr,
         max_payload_size |-> mps,
         max_epcs_per_packet |-> (mps - header_size) \div epc_size_bytes]

\* ---- hexadecimal text ----

HexDigits == <<"0", "1", "2", "3", "4", "5", "6", "7",
               "8", "9", "a", "b", "c", "d", "e", "f">>

\* str.upper() on one character of hexadecimal text
UpperChar(c) ==
    CASE c = "a" -> "A" [] c = "b" -> "B" [] c = "c" -> "C"
      [] c = "d" -> "D" [] c = "e" -> "E" [] c = "f" -> "F"
      [] OTHER -> c

Upper(str) == [k \in 1..Len(str) |-> UpperChar(str[k])]

\* value of one hexadecimal digit, either case (bytes.fromhex)
HexValue(c) ==
    (CHOOSE k \in 1..16 : UpperChar(HexDigits[k]) = UpperChar(c)) - 1

\* bytes.fromhex(epc)
fromhex(str) ==
    [k \in 1..(Len(str) \div 2) |->
        16 * HexValue(str[2 * k - 1]) + HexValue(str[2 * k])]

\* bytes.hex()
hex(bs) ==
    [k \in 1..(2 * Len(bs)) |->
        IF k % 2 = 1 THEN HexDigits[(bs[(k + 1) \div 2] \div 16) + 1]
                     ELSE HexDigits[(bs[k \div 2] % 16) + 1]]

\* b''.join(parts) for parts of one common length (every EPC is 24 characters,
\* so every part is epc_size_bytes long)
Concat(parts) ==
    IF parts = <<>> THEN <<>>
    ELSE LET w == Len(parts[1])
         IN  [k \in 1..(w * Len(parts)) |-> parts[((k - 1) \div w) + 1][((k - 1) % w) + 1]]

\* ---- calculate_airtime_parameters (lines 64-95) ----

\* the first two terms with their signs exchanged
ceil_term_num_swapped(payload_bytes, sf, PL_H) ==
    4 * sf - 8 * payload_bytes + 28 + 16 - 20 * PL_H

\* 8 * payload_bytes - 4 * self.sf + 28 + 16 - 20 * PL_H
ceil_term_num(payload_bytes, sf, PL_H) ==
    8 * payload_bytes - 4 * sf + 28 + 16 - 20 * PL_H

calculate_airtime_parameters(c, payload_bytes) ==
    LET T_sym     == Rat(Pow2(c.sf), c.bw * 1000)
        T_pream   == RMul(Rat(8 * 4 + 17, 4), T_sym)      \* (8 + 4.25) * T_sym
        PL_H      == IF c.sf >= 11 THEN 1 ELSE 0
        N_payload == RAdd(RInt(8),
                          RMul(RMax0(Rat(ceil_term_num(payload_bytes, c.sf, PL_H),
                                         4 * (c.sf - 2))),
                               RInt(c.cr + 4)))
        T_payload == RMul(N_payload, T_sym)
        T_frame   == RAdd(T_pream, T_payload)
    IN  [T_sym_ms     |-> RMul(T_sym, RInt(1000)),
         T_pream_ms   |-> RMul(T_pream, RInt(1000)),
         N_payload    |-> N_payload,
         T_payload_ms |-> RMul(T_payload, RInt(1000)),
         T_frame_ms   |-> RMul(T_frame, RInt(1000)),
         EPC_frame    |-> Floor(Rat(c.max_payload_size - header_size, epc_size_bytes))]

\* ---- calculate_transmission_plan (lines 97-134) ----

Return(v) == [kind |-> "return", val |-> v]

Raise(e) == [kind |-> "raise", val |-> e]

\* math.floor in the place of math.ceil
frames_needed_floor(total_epcs, per_packet) == Floor(Rat(total_epcs, per_packet))

\* math.ceil(total_epcs / self.max_epcs_per_packet), for a non-zero divisor
frames_needed(total_epcs, per_packet) == Ceil(Rat(total_epcs, per_packet))

calculate_transmission_plan(c, total_epcs) ==
    IF c.max_epcs_per_packet = 0
    THEN Raise("ZeroDivisionError")
    ELSE
      LET N_frames == frames_needed(total_epcs, c.max_epcs_per_packet)
          params   == calculate_airtime_parameters(c, c.max_payload_size)
          T_frame  == params.T_frame_ms
          T_batch  == RMul(RInt(N_frames), T_frame)
      IN  IF T_batch.num = 0
          THEN Raise("ZeroDivisionError")
          ELSE
            LET lots == Floor(RDiv(RInt(T_max_per_day), T_batch))
            IN  Return([total_epcs          |-> total_epcs,
                        frames_needed       |-> N_frames,
                        epcs_per_frame      |-> c.max_epcs_per_packet,
                        frame_duration_ms   |-> T_frame,
                        batch_duration_ms   |-> T_batch,
                        batch_duration_s    |-> RDiv(T_batch, RInt(1000)),
                        max_batches_per_day |-> lots,
                        max_epcs_per_day    |-> lots * total_epcs,
                        parameters          |-> params])

\* ---- the packet codec (lines 136-179) ----

\* the two leading header fields packed in the other order
create_packet_header_swapped(packet_id, epc_count, now) ==
    LET timestamp == now % ShortMod
    IN  <<epc_count % ByteMod, packet_id % ByteMod,
          timestamp \div ByteMod, timestamp % ByteMod>>

\* struct.pack('>BBH', packet_id & 0xFF, epc_count & 0xFF, timestamp)
create_packet_header(packet_id, epc_count, now) ==
    LET timestamp == now % ShortMod
    IN  <<packet_id % ByteMod, epc_count % ByteMod,
          timestamp \div ByteMod, timestamp % ByteMod>>

\* the test of line 143 refusing a full packet
TooManyAtLimit(n, per_packet) == n >= per_packet

\* the test of line 143
TooMany(n, per_packet) == n > per_packet

create_lorawan_payload(c, es, packet_id, now) ==
    IF TooMany(Len(es), c.max_epcs_per_packet)
    THEN Raise("ValueError")
    ELSE Return(create_packet_header(packet_id, Len(es), now)
                \o Concat([k \in 1..Len(es) |-> fromhex(es[k])]))

\* the test of line 167 refusing the chunk that ends the buffer
PastEndAtLimit(end_idx, n) == end_idx >= n

\* the test of line 167
PastEnd(end_idx, n) == end_idx > n

\* the for loop of lines 163-172: the number of iterations that append, i.e.
\* the first k at which the range is exhausted or the break is taken
Iterations(epc_data, epc_count) ==
    CHOOSE k \in 0..epc_count :
        /\ k = epc_count \/ PastEnd((k + 1) * epc_size_bytes, Len(epc_data))
        /\ \A j \in 0..(k - 1) : ~PastEnd((j + 1) * epc_size_bytes, Len(epc_data))

\* the list built by the loop: iteration k appends epc_data[start_idx:end_idx]
\* as uppercase hexadecimal text
DecodeLoop(epc_data, epc_count) ==
    [n \in 1..Iterations(epc_data, epc_count) |->
        LET start_idx == (n - 1) * epc_size_bytes
            end_idx   == start_idx + epc_size_bytes
        IN  Upper(hex(SubSeq(epc_data, start_idx + 1, end_idx)))]

decode_payload(payload) ==
    IF Len(payload) < header_size
    THEN Raise("ValueError")
    ELSE LET epc_count == payload[2]
             epc_data  == SubSeq(payload, 5, Len(payload))
         IN  Return([packet_id |-> payload[1],
                     epc_count |-> epc_count,
                     timestamp |-> payload[3] * ByteMod + payload[4],
                     epcs      |-> DecodeLoop(epc_data, epc_count)])

\* ---- inputs of the calls ----

EpcLow == <<"d", "e">> \o Rep("9", 10) \o <<"a", "B">> \o Rep("c", 10)

CodecPool == {EpcA1, EpcLow, EpcC7}

\* every short list, and one list at each side of the one-byte count's range
EncodeInputs ==
    SeqsUpTo(CodecPool, MaxPacketEpcs)
    \cup {Rep(EpcLow, n) : n \in {ByteMod - 1, ByteMod}}

PacketIds == {5, ByteMod - 1, ByteMod + 5}

Clock == {0, ShortMod + 43981}

BufferBody == fromhex(EpcA1) \o fromhex(EpcLow) \o fromhex(EpcC7)

\* buffers of every length from nothing to a header and three EPCs, the
\* count byte below, at and above what the body holds
Buffers ==
    {SubSeq(<<5, n, 171, 205>> \o BufferBody, 1, L) :
        n \in {0, 1, 2, 3, ByteMod - 1}, L \in 0..(header_size + Len(BufferBody))}

NoCall == [op |-> "none"]

\* ---- one action per method call ----
\* No method assigns an attribute of the instance, so a call made after
\* another one starts from the same instance as a call made first: the
\* behaviours are one call on the constructed instance, followed by the
\* calls that take its result or are compared with it.

Encode(es, packet_id, now) ==
    /\ call.op = "none"
    /\ call' = [op |-> "encode", epcs |-> es, packet_id |-> packet_id, now |-> now]
    /\ ret' = create_lorawan_payload(calc, es, packet_id, now)
    /\ prev' = [call |-> NoCall, ret |-> Return(<<>>), calc |-> calc]
    /\ UNCHANGED calc

\* decode_payload on the payload the previous call returned (as process_epcs does)
DecodeReturned ==
    /\ call.op = "encode"
    /\ ret.kind = "return"
    /\ call' = [op |-> "decode", payload |-> ret.val]
    /\ ret' = decode_payload(ret.val)
    /\ prev' = [call |-> call, ret |-> ret, calc |-> calc]
    /\ UNCHANGED calc

\* decode_payload on a buffer from elsewhere
Decode(buf) ==
    /\ call.op = "none"
    /\ call' = [op |-> "decode", payload |-> buf]
    /\ ret' = decode_payload(buf)
    /\ prev' = [call |-> NoCall, ret |-> Return(<<>>), calc |-> calc]
    /\ UNCHANGED calc

Airtime(payload_bytes) ==
    /\ call.op = "none" \/ (call.op = "airtime" /\ prev.call.op = "none")
    /\ call' = [op |-> "airtime", payload_bytes |-> payload_bytes]
    /\ ret' = Return(calculate_airtime_parameters(calc, payload_bytes))
    /\ prev' = IF call.op = "airtime"
               THEN [call |-> call, ret |-> ret, calc |-> calc]
               ELSE [call |-> NoCall, ret |-> Return(<<>>), calc |-> calc]
    /\ UNCHANGED calc

Plan(total_epcs) ==
    /\ call.op = "none"
    /\ call' = [op |-> "plan", total_epcs |-> total_epcs]
    /\ ret' = calculate_transmission_plan(calc, total_epcs)
    /\ prev' = [call |-> NoCall, ret |-> Return(<<>>), calc |-> calc]
    /\ UNCHANGED calc

CalculatorInit ==
    /\ \E a \in CtorArgs : calc = NewCalculator(a[1], a[2], a[3], a[4])
    /\ call = NoCall
    /\ ret = Return(<<>>)
    /\ prev = [call |-> NoCall, ret |-> Return(<<>>), calc |-> calc]

-----------------------------------------------------------------------------
(* The two programs *)

\* the analyzer at work, next to a freshly built default calculator
InitAnalyzer ==
    /\ AnalyzerInit
    /\ calc = NewCalculator(12, 125, 1, None)
    /\ call = NoCall
    /\ ret = Return(<<>>)
    /\ prev = [call |-> NoCall, ret |-> Return(<<>>), calc |-> calc]

NextAnalyzer ==
    \/ \E e \in AnalyzerInputs : GroupCall(e) /\ UNCHANGED cvars
    \/ PopBase /\ UNCHANGED cvars
    \/ ScanStep /\ UNCHANGED cvars
    \/ CloseGroup /\ UNCHANGED cvars
    \/ Analyze /\ UNCHANGED cvars

SpecAnalyzer == InitAnalyzer /\ [][NextAnalyzer]_vars

\* a calculator at work, next to an idle analyzer
InitCalculator == CalculatorInit /\ AnalyzerInit

NextCalculator ==
    \/ \E es \in EncodeInputs, id \in PacketIds, now \in Clock :
          Encode(es, id, now) /\ UNCHANGED avars
    \/ DecodeReturned /\ UNCHANGED avars
    \/ \E buf \in Buffers : Decode(buf) /\ UNCHANGED avars
    \/ \E p \in 0..MaxPayloadBytes : Airtime(p) /\ UNCHANGED avars
    \/ \E t \in 0..MaxTotalEpcs : Plan(t) /\ UNCHANGED avars

SpecCalculator == InitCalculator /\ [][NextCalculator]_vars

-----------------------------------------------------------------------------
(* Properties of group_and_analyze *)

Done == pc = "done"

Cells == 1..Len(epcs)

\* where cell c of the input ended up: the pairs <<group, position>>
PlacesOf(c) ==
    {gp \in UNION {{<<g, j>> : j \in 1..Len(groups[g])} : g \in 1..Len(groups)} :
        groups[gp[1]][gp[2]] = c}

\* number of positions at which two EPCs carry the same character
EqualColumns(x, y) == Cardinality({k \in 1..EpcChars : x[k] = y[k]})

SameHead(x, y, n) == \A k \in 1..n : x[k] = y[k]

\* C1: when the call has returned, every occurrence of the input lies in
\* exactly one group, no group is empty, and the Suffix_Count column sums to
\* the length of the input.
C1_Partition ==
    Done =>
        /\ \A c \in Cells : Cardinality(PlacesOf(c)) = 1
        /\ \A g \in 1..Len(groups) :
              /\ groups[g] # <<>>
              /\ \A j \in 1..Len(groups[g]) : groups[g][j] \in Cells
        /\ Len(analysis_results) = Len(groups)
        /\ SumSeq([g \in 1..Len(analysis_results) |->
                      analysis_results[g].Suffix_Count]) = Len(epcs)

\* a finished run over an input with a repeated EPC, several groups, one of
\* them with several members
C1_Witness ==
    /\ Done
    /\ \E a, b \in Cells : a # b /\ epcs[a] = epcs[b]
    /\ Len(groups) >= 2
    /\ \E g \in 1..Len(groups) : Len(groups[g]) >= 2

\* C3: every result row of a group of two or more EPCs that reports
\* Prefix_Bytes > 0 reports Total_Payload_Bytes < 12 * Suffix_Count.
C3_CompressionSaves ==
    Done =>
        \A g \in 1..Len(analysis_results) :
            LET row == analysis_results[g]
            IN  (Len(groups[g]) >= 2 /\ row.Prefix_Bytes > 0)
                    => row.Total_Payload_Bytes < 12 * row.Suffix_Count

\* a two-member group billed with the shortest prefix (the smallest saving)
C3_Witness ==
    /\ Done
    /\ \E g \in 1..Len(analysis_results) :
          /\ Len(groups[g]) = 2
          /\ analysis_results[g].Prefix_Bytes = 3
          /\ analysis_results[g].Suffix_Bytes = 9

ThreeTags == <<EpcA1, EpcA2, EpcA3>>

\* C4 as stated: the three AAAAAA...1/2/3 tags form one group billed with
\* prefix_bytes = 3, suffix_bytes = 9, total_payload_bytes = 32.
C4_AsStated ==
    (Done /\ epcs = ThreeTags) =>
        /\ groups = <<(<<1, 2, 3>>)>>
        /\ analysis_results[1].Prefix_Bytes = 3
        /\ analysis_results[1].Suffix_Bytes = 9
        /\ analysis_results[1].Total_Payload_Bytes = 32

\* C4 amended: the three tags form one group; they agree in 23 columns, so
\* the row has prefix_bytes = 11, suffix_bytes = 0, total_payload_bytes = 13.
C4_ThreeTags ==
    (Done /\ epcs = ThreeTags) =>
        /\ groups = <<(<<1, 2, 3>>)>>
        /\ Len(analysis_results) = 1
        /\ analysis_results[1].Prefix_Bytes = 11
        /\ analysis_results[1].Suffix_Bytes = 0
        /\ analysis_results[1].Suffix_Count = 3
        /\ analysis_results[1].Total_Payload_Bytes = 13

C4_Witness == Done /\ epcs = ThreeTags /\ Len(analysis_results) = 1

EarlierCells(g) == UNION {{groups[h][j] : j \in 1..Len(groups[h])} : h \in 1..(g - 1)}

-----------------------------------------------------------------------------
(* Properties of the calculator *)

\* the state right after decode_payload was given what create_lorawan_payload
\* returned for a packet_id that fits a byte
RoundTrip ==
    /\ call.op = "decode"
    /\ prev.call.op = "encode"
    /\ prev.call.packet_id \in 0..(ByteMod - 1)

RoundTripExact ==
    /\ ret.kind = "return"
    /\ ret.val.packet_id = prev.call.packet_id
    /\ ret.val.epc_count = Len(prev.call.epcs)
    /\ ret.val.epcs = [k \in 1..Len(prev.call.epcs) |-> Upper(prev.call.epcs[k])]

\* C2 as stated: decoding what was encoded from k <= max_epcs_per_packet
\* EPCs gives back the packet_id, k, and the k EPCs in uppercase, in order.
C2_AsStated == RoundTrip => RoundTripExact

\* C2 amended: the same, for k <= max_epcs_per_packet and k <= 255.
C2_RoundTrip ==
    (RoundTrip /\ Len(prev.call.epcs) < ByteMod) => RoundTripExact

\* three distinct EPCs, one of them written in lower case, packet_id 5
C2_Witness ==
    /\ RoundTrip
    /\ prev.call.packet_id = 5
    /\ Len(prev.call.epcs) = 3
    /\ Cardinality({prev.call.epcs[k] : k \in 1..3}) = 3
    /\ ret.kind = "return"
    /\ Len(ret.val.epcs) = 3

\* C6: create_lorawan_payload raises exactly when the list is longer than
\* max_epcs_per_packet, otherwise it returns 4 + 12 * len(epcs) bytes; the
\* instance is as it was before the call.
C6_Capacity ==
    (call.op = "encode") =>
        /\ (ret.kind = "raise") <=> (Len(call.epcs) > calc.max_epcs_per_packet)
        /\ (ret.kind = "raise") => ret.val = "ValueError"
        /\ (ret.kind = "return") => Len(ret.val) = 4 + 12 * Len(call.epcs)
        /\ calc = prev.calc

\* a list exactly as long as the instance allows, accepted
C6_Witness ==
    /\ call.op = "encode"
    /\ Len(call.epcs) = calc.max_epcs_per_packet
    /\ Len(call.epcs) > 0
    /\ ret.kind = "return"

\* C7: decode_payload raises exactly for buffers shorter than 4 bytes; for
\* a longer buffer of L bytes it returns min(count byte, (L - 4) \div 12)
\* EPCs, the leading 12-byte chunks in order, and reports the count byte.
C7_Decode ==
    (call.op = "decode") =>
        LET L == Len(call.payload)
        IN  /\ (ret.kind = "raise") <=> (L < 4)
            /\ (ret.kind = "raise") => ret.val = "ValueError"
            /\ (ret.kind = "return") =>
                  /\ ret.val.epc_count = call.payload[2]
                  /\ Len(ret.val.epcs) = Min2(call.payload[2], (L - 4) \div 12)
                  /\ \A j \in 1..Len(ret.val.epcs) :
                        /\ Len(ret.val.epcs[j]) = EpcChars
                        /\ Upper(ret.val.epcs[j]) = ret.val.epcs[j]
                        /\ fromhex(ret.val.epcs[j])
                             = SubSeq(call.payload, 12 * j - 7, 12 * j + 4)

\* a buffer whose count byte promises more EPCs than its body holds
C7_Witness ==
    /\ call.op = "decode"
    /\ ret.kind = "return"
    /\ Len(ret.val.epcs) >= 1
    /\ ret.val.epc_count > Len(ret.val.epcs)

\* the instance was built with the table's payload size
TablePayload == calc.sf \in 7..12 /\ calc.max_payload_size = sf_limits(calc.sf)

PlanAsClaimed ==
    /\ ret.kind = "return"
    /\ LET plan == ret.val
           t == call.total_epcs
           m == calc.max_epcs_per_packet
       IN  /\ plan.frames_needed * m >= t
           /\ (plan.frames_needed - 1) * m < t
           /\ plan.frame_duration_ms
                = calculate_airtime_parameters(calc, calc.max_payload_size).T_frame_ms
           /\ plan.batch_duration_ms = RMul(RInt(plan.frames_needed), plan.frame_duration_ms)
           /\ RLeq(RMul(RInt(plan.max_batches_per_day), plan.batch_duration_ms),
                   RInt(T_max_per_day))
           /\ ~RLeq(RMul(RInt(plan.max_batches_per_day + 1), plan.batch_duration_ms),
                    RInt(T_max_per_day))
           /\ plan.max_epcs_per_day = plan.max_batches_per_day * t

\* C8 as stated: for every total_epcs >= 0 the plan is returned with
\* frames_needed the ceiling, the full-frame airtime, their product, the
\* floor of the daily budget over it, and that floor times total_epcs.
C8_AsStated ==
    (call.op = "plan" /\ TablePayload /\ call.total_epcs >= 0) => PlanAsClaimed

\* C8 amended: the same, for every total_epcs >= 1.
C8_Plan ==
    (call.op = "plan" /\ TablePayload /\ call.total_epcs >= 1) => PlanAsClaimed

\* a batch of several frames, the last one not full
C8_Witness ==
    /\ call.op = "plan"
    /\ TablePayload
    /\ ret.kind = "return"
    /\ ret.val.frames_needed >= 2
    /\ call.total_epcs % calc.max_epcs_per_packet # 0
    /\ ret.val.max_batches_per_day >= 1

\* two calls in a row on one instance
TwoAirtimes == call.op = "airtime" /\ prev.call.op = "airtime"

\* C9: on one instance, a payload size that is not smaller never gets a
\* smaller T_frame_ms.
C9_Monotone ==
    (TwoAirtimes /\ prev.call.payload_bytes <= call.payload_bytes) =>
        RLeq(prev.ret.val.T_frame_ms, ret.val.T_frame_ms)

\* a larger payload that did take longer
C9_Witness ==
    /\ TwoAirtimes
    /\ prev.call.payload_bytes < call.payload_bytes
    /\ ~RLeq(ret.val.T_frame_ms, prev.ret.val.T_frame_ms)

====
